---- MODULE Spec2Model ----
(***************************************************************************)
(* Model of generate_shipping_table.py: the Total Express shipping table   *)
(* generator.  One process (main) runs generate_table twice, once per      *)
(* service type; generate_table walks the cross product of CEP ranges and  *)
(* weight ranges, asks TotalExpressAPI.calculate_shipping_cost for a quote *)
(* per pair and finally writes the accumulated rows with write_csv.        *)
(*                                                                         *)
(* Text values are sequences of one-character strings, money is counted in *)
(* centavos (1/100 BRL), weights in grams.                                 *)
(*                                                                         *)
(* The remote service is the environment.  Each call may fail in one of    *)
(* the ways of Faults (at most MaxFaults calls of an execution do); a call *)
(* that does not fail answers CodigoProc = 1 with the payload of tariff,   *)
(* which is chosen once per execution.  The output folder is empty when    *)
(* the execution starts.  A failing write leaves the file created and      *)
(* empty: the tables of the model fit the writer's buffer.                 *)
(***************************************************************************)
EXTENDS Integers, Sequences, FiniteSets, TLC

VARIABLES
    pc,           \* position of main: "main", "gen_start", "query", "sleep", "write", "gen_done", "exit"
    environ,      \* [TOTAL_EXPRESS_USERNAME, TOTAL_EXPRESS_PASSWORD] after load_dotenv
    tariff,       \* what the remote service answers when it answers: [ValorServico, Prazo]
    run,          \* which generate_table call of main is active (1: STD, 2: EXP)
    ci,           \* position of the outer loop in cep_ranges
    wi,           \* position of the inner loop in weight_ranges
    query_count,  \* generate_table's local query_count
    results,      \* generate_table's local results
    calls,        \* calculate_shipping_cost invocations of the active run: params and outcome
    requests,     \* WSDL fetches issued by this execution (session.get)
    sleeps,       \* time.sleep(1) calls of the active run
    files,        \* the output folder: file name -> [exists, header, rows]
    opens,        \* file name -> number of times write_csv opened it for writing
    exc,          \* the exception that left generate_table, "none" if none
    exit_code,    \* the process exit status, -1 while running
    faults,       \* remote calls of this execution in which the service failed
    api_result,   \* the value calculate_shipping_cost returned last
    response      \* (client specification only) the remote behaviour handed to the client

vars == <<pc, environ, tariff, run, ci, wi, query_count, results, calls,
          requests, sleeps, files, opens, exc, exit_code, faults, api_result, response>>

(***************************************************************************)
(* Bounds of the model: how many entries of each static table are walked.  *)
(***************************************************************************)
NumCepRanges == 2
NumWeightRanges == 2

\* At most this many remote calls of one execution fail.
MaxFaults == 4

Min(a, b) == IF a < b THEN a ELSE b

Prefix(s, n) == SubSeq(s, 1, Min(n, Len(s)))

(***************************************************************************)
(* Static tables.                                                          *)
(***************************************************************************)
generate_cep_ranges ==
    << <<1000000, 1999999>>, <<2000000, 2899999>>, <<2900000, 2999999>>,
       <<3000000, 3999999>>, <<4000000, 4899999>>, <<4900000, 4999999>>,
       <<5000000, 5699999>>, <<5700000, 5799999>>, <<5800000, 5899999>>,
       <<5900000, 5999999>>, <<6000000, 6399999>>, <<6400000, 6499999>>,
       <<6500000, 6599999>>, <<6600000, 6889999>>, <<6890000, 6899999>>,
       <<7000000, 7279999>>, <<7280000, 7679999>>, <<7680000, 7699999>>,
       <<6990000, 6999999>>, <<7800000, 7889999>>, <<7900000, 7999999>>,
       <<8000000, 8799999>>, <<8800000, 8999999>>, <<9000000, 9999999>>,
       <<7700000, 7799999>>, <<6930000, 6939999>> >>

generate_weight_ranges ==
    << <<1, 250>>, <<251, 500>>, <<501, 750>>, <<751, 1000>>,
       <<1001, 2000>>, <<2001, 3000>>, <<3001, 4000>>, <<4001, 5000>>,
       <<5001, 6000>>, <<6001, 7000>>, <<7001, 8000>>, <<8001, 9000>>,
       <<9001, 10000>> >>

\* The locals cep_ranges and weight_ranges of generate_table, cut to the bounds.
cep_ranges == Prefix(generate_cep_ranges, NumCepRanges)

weight_ranges == Prefix(generate_weight_ranges, NumWeightRanges)

total_queries == Len(cep_ranges) * Len(weight_ranges)

(***************************************************************************)
(* Text helpers.                                                           *)
(***************************************************************************)
Digits == <<"0", "1", "2", "3", "4", "5", "6", "7", "8", "9">>

IsDigit(c) == \E d \in 1..10 : Digits[d] = c

DigitVal(c) == (CHOOSE d \in 1..10 : Digits[d] = c) - 1

AllDigits(s) == \A k \in 1..Len(s) : IsDigit(s[k])

RECURSIVE DigitsVal(_)
DigitsVal(s) ==
    IF Len(s) = 0 THEN 0
    ELSE 10 * DigitsVal(SubSeq(s, 1, Len(s) - 1)) + DigitVal(s[Len(s)])

RECURSIVE NatStr(_)
NatStr(n) ==
    IF n < 10 THEN <<Digits[n + 1]>>
    ELSE NatStr(n \div 10) \o <<Digits[(n % 10) + 1]>>

\* str.replace(old, new) for one-character old and new.
Replace(s, old, new) == [k \in 1..Len(s) |-> IF s[k] = old THEN new ELSE s[k]]

(***************************************************************************)
(* Python values: None, str, dict, and a raised exception.                 *)
(***************************************************************************)
PyNone == [kind |-> "None"]

PyStr(s) == [kind |-> "str", val |-> s]

PyRaise(e) == [kind |-> "raise", error |-> e]

\* Truth value of a Python object: None and "" are false, the dict built at
\* lines 136-140 has three keys and is true.
Truthy(v) ==
    CASE v.kind = "None" -> FALSE
      [] v.kind = "str" -> Len(v.val) > 0
      [] v.kind = "dict" -> TRUE
      [] OTHER -> FALSE

\* float(text) as an amount in centavos: [sign] digits [. digits] or
\* [sign] . digits; anything else is a ValueError.  Amounts are whole
\* centavos here, so a text with more than two fraction digits is outside
\* the domain of this operator; no payload of the model has one.
ParseFloat(s) ==
    LET neg == Len(s) > 0 /\ s[1] = "-"
        signed == Len(s) > 0 /\ (s[1] = "-" \/ s[1] = "+")
        body == IF signed THEN SubSeq(s, 2, Len(s)) ELSE s
        dots == {k \in 1..Len(body) : body[k] = "."}
        dot == IF dots = {} THEN Len(body) + 1 ELSE CHOOSE k \in dots : TRUE
        ip == SubSeq(body, 1, dot - 1)
        fp == SubSeq(body, dot + 1, Len(body))
        ok == /\ Cardinality(dots) <= 1
              /\ AllDigits(ip) /\ AllDigits(fp)
              /\ Len(ip) + Len(fp) > 0
              /\ Len(fp) <= 2
        cents == DigitsVal(ip) * 100
                 + (IF Len(fp) = 0 THEN 0
                    ELSE IF Len(fp) = 1 THEN 10 * DigitsVal(fp)
                    ELSE DigitsVal(fp))
    IN  IF ok THEN [ok |-> TRUE, val |-> IF neg THEN 0 - cents ELSE cents]
        ELSE [ok |-> FALSE, val |-> 0]

\* int(text): [sign] digits; anything else is a ValueError.
ParseInt(s) ==
    LET neg == Len(s) > 0 /\ s[1] = "-"
        signed == Len(s) > 0 /\ (s[1] = "-" \/ s[1] = "+")
        body == IF signed THEN SubSeq(s, 2, Len(s)) ELSE s
        ok == Len(body) > 0 /\ AllDigits(body)
    IN  IF ok THEN [ok |-> TRUE, val |-> IF neg THEN 0 - DigitsVal(body) ELSE DigitsVal(body)]
        ELSE [ok |-> FALSE, val |-> 0]

(***************************************************************************)
(* TotalExpressAPI.  A remote behaviour r says what the service does for   *)
(* one calculate_shipping_cost call:                                       *)
(*   wsdl         "error" (session.get or raise_for_status raises),        *)
(*                "empty" (an empty body), "ok"                            *)
(*   soap         "fault" (Client(...) or calcularFrete raises), "ok"      *)
(*   hasCodigoProc, CodigoProc, DadosFrete ("missing": no attribute,       *)
(*                "None": attribute without value, "present"),             *)
(*   ValorServico, Prazo   the texts of the payload                        *)
(***************************************************************************)
get_wsdl(r) ==
    IF r.wsdl = "error" THEN PyNone
    ELSE IF r.wsdl = "empty" THEN PyStr(<<>>)
    ELSE PyStr(<<"w", "s", "d", "l">>)

\* Lines 117-142: the body of the try block.
SoapCall(r) ==
    IF r.soap = "fault" THEN PyRaise("Fault")
    ELSE IF r.hasCodigoProc /\ r.CodigoProc = 1 THEN
        IF r.DadosFrete # "missing" THEN
            IF r.DadosFrete = "None" THEN PyRaise("AttributeError")
            ELSE LET cost == ParseFloat(Replace(r.ValorServico, ",", "."))
                     days == ParseInt(r.Prazo)
                 IN  IF ~cost.ok THEN PyRaise("ValueError")
                     ELSE IF ~days.ok THEN PyRaise("ValueError")
                     ELSE [kind |-> "dict", cost |-> cost.val,
                           delivery_days |-> days.val, success |-> TRUE]
        ELSE PyNone
    ELSE PyNone

\* Lines 144-146 propagate what the try block raised.
TryExceptNoCatch(v) == v

\* Lines 144-146: except Exception: log and return None.
TryExcept(v) == IF v.kind = "raise" THEN PyNone ELSE v

calculate_shipping_cost(r) ==
    LET wsdl_content == get_wsdl(r)
    IN  IF ~Truthy(wsdl_content) THEN PyNone
        ELSE TryExcept(SoapCall(r))

(***************************************************************************)
(* ShippingTableGenerator helpers.                                         *)
(***************************************************************************)
format_weight_for_api(weight_grams) == <<".", "2", "f">>

format_cep_for_api(cep) == <<"0", "8", "d">>

\* Line 246.
TestCep(cep_start, cep_end) == cep_start + (cep_end - cep_start) \div 2

\* Line 252.
TestWeight(weight_start, weight_end) == (weight_start + weight_end) \div 2

service_types == <<"STD", "EXP">>

\* Both tables saved under one name.
OutputFilesSameName == <<"total_express_standard.csv", "total_express_standard.csv">>

\* Lines 338 and 341.
output_files == <<"total_express_standard.csv", "total_express_express.csv">>

\* Lines 258-268.
Params(service_type, test_cep, test_weight) ==
    [TipoServico |-> service_type,
     CepDestino |-> format_cep_for_api(test_cep),
     Peso |-> format_weight_for_api(test_weight),
     ValorDeclarado |-> <<"0", ",", "0", "0">>,
     TipoEntrega |-> 0,
     ServicoCOD |-> FALSE,
     Altura |-> <<"1", "0", ",", "0", "0">>,
     Largura |-> <<"1", "5", ",", "0", "0">>,
     Profundidade |-> <<"2", "0", ",", "0", "0">>]

\* A row that takes the queried CEP for the start of its range.
ShippingResultTestCep(cr, wr, r, service_type) ==
    [cep_start |-> TestCep(cr[1], cr[2]), cep_end |-> cr[2],
     weight_start |-> wr[1], weight_end |-> wr[2],
     cost |-> r.cost, delivery_days |-> r.delivery_days,
     service_type |-> service_type]

\* Lines 274-282.
ShippingResult(cr, wr, r, service_type) ==
    [cep_start |-> cr[1], cep_end |-> cr[2],
     weight_start |-> wr[1], weight_end |-> wr[2],
     cost |-> r.cost, delivery_days |-> r.delivery_days,
     service_type |-> service_type]

fieldnames ==
    <<"ZipCodeStart", "ZipCodeEnd", "WeightStart", "WeightEnd",
      "AbsoluteMoneyCost", "TimeCost">>

\* Lines 306-313: the dict handed to writer.writerow.
CsvRow(result) ==
    [ZipCodeStart |-> result.cep_start,
     ZipCodeEnd |-> result.cep_end,
     WeightStart |-> result.weight_start,
     WeightEnd |-> result.weight_end,
     AbsoluteMoneyCost |-> <<".", "2", "f">>,
     TimeCost |-> result.delivery_days]

(***************************************************************************)
(* The environment of one execution.                                       *)
(***************************************************************************)
Unset == "(unset)"

\* os.getenv(name, default) on the value the environment holds for name.
getenv(value, default) == IF value = Unset THEN default ELSE value

Usernames == {Unset, "", "your_username", "user"}

Passwords == {Unset, "your_password", "secret"}

\* The payloads the service may answer with in one execution.
Tariffs ==
    {[ValorServico |-> <<"1", "0", ",", "0", "0">>, Prazo |-> <<"5">>],
     [ValorServico |-> <<"-", "3", ",", "0", "0">>, Prazo |-> <<"-", "1">>]}

\* What can go wrong in one call of the remote service.
Faults == {"none", "wsdl_error", "soap_fault", "CodigoProc_0", "DadosFrete_None"}

Behaviour(fault, t) ==
    [wsdl |-> IF fault = "wsdl_error" THEN "error" ELSE "ok",
     soap |-> IF fault = "soap_fault" THEN "fault" ELSE "ok",
     hasCodigoProc |-> TRUE,
     CodigoProc |-> IF fault = "CodigoProc_0" THEN 0 ELSE 1,
     DadosFrete |-> IF fault = "DadosFrete_None" THEN "None" ELSE "present",
     ValorServico |-> t.ValorServico,
     Prazo |-> t.Prazo]

NoFile == [exists |-> FALSE, header |-> <<>>, rows |-> <<>>]

Unused == [kind |-> "unused"]

FileNames == {output_files[k] : k \in 1..Len(output_files)}

\* The state of the locals of generate_table before it runs and after the
\* process has ended.
NoLocals ==
    /\ ci' = 0
    /\ wi' = 0
    /\ query_count' = 0
    /\ results' = <<>>
    /\ calls' = <<>>
    /\ sleeps' = 0
    /\ api_result' = PyNone

Init ==
    /\ pc = "main"
    /\ environ \in [TOTAL_EXPRESS_USERNAME : Usernames, TOTAL_EXPRESS_PASSWORD : Passwords]
    /\ tariff \in Tariffs
    /\ run = 0
    /\ ci = 0
    /\ wi = 0
    /\ query_count = 0
    /\ results = <<>>
    /\ calls = <<>>
    /\ requests = 0
    /\ sleeps = 0
    /\ files = [f \in FileNames |-> NoFile]
    /\ opens = [f \in FileNames |-> 0]
    /\ exc = "none"
    /\ exit_code = -1
    /\ faults = 0
    /\ api_result = PyNone
    /\ response = Unused

USERNAME == getenv(environ.TOTAL_EXPRESS_USERNAME, "your_username")

PASSWORD == getenv(environ.TOTAL_EXPRESS_PASSWORD, "your_password")

\* Line 325.
CredentialsRejected == USERNAME = "your_username" \/ PASSWORD = "your_password"

\* Lines 315-338: main up to its first generate_table call.
Main ==
    /\ pc = "main"
    /\ IF CredentialsRejected
       THEN /\ pc' = "exit"
            /\ exit_code' = 1
            /\ run' = run
       ELSE /\ pc' = "gen_start"
            /\ exit_code' = exit_code
            /\ run' = 1
    /\ UNCHANGED <<environ, tariff, ci, wi, query_count, results, calls, requests,
                   sleeps, files, opens, exc, faults, api_result, response>>

\* An exception leaves generate_table; main does not catch it and the
\* interpreter ends the process with status 1.
Propagate(e) ==
    /\ exc' = e
    /\ pc' = "exit"
    /\ exit_code' = 1
    /\ NoLocals

\* Lines 225-241: generate_table up to its loops.
GenStart(makedirs_ok) ==
    /\ pc = "gen_start"
    /\ IF ~makedirs_ok
       THEN /\ Propagate("makedirs:OSError")
       ELSE /\ results' = <<>>
            /\ calls' = <<>>
            /\ sleeps' = 0
            /\ query_count' = 0
            /\ ci' = 1
            /\ wi' = 1
            /\ api_result' = PyNone
            /\ pc' = IF total_queries = 0 THEN "write" ELSE "query"
            /\ UNCHANGED <<exc, exit_code>>
    /\ UNCHANGED <<environ, tariff, run, requests, files, opens, faults, response>>

\* Rows collected newest first.
CollectPrepend(rows, api_res, cr, wr, service_type) ==
    IF Truthy(api_res)
    THEN <<ShippingResult(cr, wr, api_res, service_type)>> \o rows
    ELSE rows

\* A fallback row for a failed query (the comment at line 287).
CollectWithFallback(rows, api_res, cr, wr, service_type) ==
    IF Truthy(api_res)
    THEN Append(rows, ShippingResult(cr, wr, api_res, service_type))
    ELSE Append(rows, ShippingResult(cr, wr, [cost |-> 0, delivery_days |-> 0], service_type))

\* Lines 273-286: what generate_table does with api_result.
Collect(rows, api_res, cr, wr, service_type) ==
    IF Truthy(api_res)
    THEN Append(rows, ShippingResult(cr, wr, api_res, service_type))
    ELSE rows

\* Lines 243-286: one pass of the inner loop body up to the pause.
Query(fault) ==
    /\ pc = "query"
    /\ fault # "none" => faults < MaxFaults
    /\ faults' = IF fault = "none" THEN faults ELSE faults + 1
    /\ LET cr == cep_ranges[ci]
           wr == weight_ranges[wi]
           test_cep == TestCep(cr[1], cr[2])
           test_weight == TestWeight(wr[1], wr[2])
           params == Params(service_types[run], test_cep, test_weight)
           res == calculate_shipping_cost(Behaviour(fault, tariff))
       IN  /\ requests' = requests + 1
           /\ IF res.kind = "raise"
              THEN /\ Propagate("calculate_shipping_cost:" \o res.error)
              ELSE /\ query_count' = query_count + 1
                   /\ api_result' = res
                   /\ calls' = Append(calls, [cep |-> ci, weight |-> wi, params |-> params,
                                              test_cep |-> test_cep, test_weight |-> test_weight,
                                              ok |-> Truthy(res)])
                   /\ results' = Collect(results, res, cr, wr, service_types[run])
                   /\ pc' = "sleep"
                   /\ UNCHANGED <<ci, wi, sleeps, exc, exit_code>>
    /\ UNCHANGED <<environ, tariff, run, files, opens, response>>

\* The inner loop left after its first pass.
NextPairBreak(c, w) == <<c + 1, 1>>

\* The loop positions after the pair (c, w): the inner loop first.
NextPair(c, w) ==
    IF w < Len(weight_ranges) THEN <<c, w + 1>> ELSE <<c + 1, 1>>

\* Line 290 and the loop headers at lines 243 and 248.
Sleep ==
    /\ pc = "sleep"
    /\ sleeps' = sleeps + 1
    /\ LET np == NextPair(ci, wi)
       IN  /\ ci' = np[1]
           /\ wi' = np[2]
           /\ pc' = IF np[1] > Len(cep_ranges) THEN "write" ELSE "query"
    /\ UNCHANGED <<environ, tariff, run, query_count, results, calls, requests,
                   files, opens, exc, exit_code, faults, api_result, response>>

\* Lines 298-313: the file write_csv leaves when nothing fails.
CsvFile(rows) ==
    [exists |-> TRUE,
     header |-> fieldnames,
     rows |-> [k \in 1..Len(rows) |-> CsvRow(rows[k])]]

\* Lines 293, 296-313: write_csv.  io is "ok", "open" (open raises and the
\* file is left as it was) or "write" (the file was created or truncated and
\* writing it out fails).
WriteCsv(io) ==
    /\ pc = "write"
    /\ LET f == output_files[run]
       IN  CASE io = "open" ->
                  /\ Propagate("open:OSError")
                  /\ UNCHANGED <<files, opens>>
             [] io = "write" ->
                  /\ Propagate("write:OSError")
                  /\ files' = [files EXCEPT ![f] = [exists |-> TRUE, header |-> <<>>, rows |-> <<>>]]
                  /\ opens' = [opens EXCEPT ![f] = @ + 1]
             [] OTHER ->
                  /\ files' = [files EXCEPT ![f] = CsvFile(results)]
                  /\ opens' = [opens EXCEPT ![f] = @ + 1]
                  /\ pc' = "gen_done"
                  /\ UNCHANGED <<ci, wi, query_count, results, calls, sleeps,
                                 exc, exit_code, api_result>>
    /\ UNCHANGED <<environ, tariff, run, requests, faults, response>>

\* Line 294 and lines 340-343: generate_table returns to main.
GenReturn ==
    /\ pc = "gen_done"
    /\ IF run < Len(service_types)
       THEN /\ run' = run + 1
            /\ pc' = "gen_start"
            /\ UNCHANGED <<ci, wi, query_count, results, calls, sleeps, api_result,
                           exit_code>>
       ELSE /\ run' = run
            /\ pc' = "exit"
            /\ exit_code' = 0
            /\ NoLocals
    /\ UNCHANGED <<environ, tariff, requests, files, opens, exc, faults, response>>

Next ==
    \/ Main
    \/ \E makedirs_ok \in BOOLEAN : GenStart(makedirs_ok)
    \/ \E fault \in Faults : Query(fault)
    \/ Sleep
    \/ \E io \in {"ok", "open", "write"} : WriteCsv(io)
    \/ GenReturn

Spec == Init /\ [][Next]_vars

(***************************************************************************)
(* The client on its own: one calculate_shipping_cost call against every   *)
(* remote behaviour of a bounded set.                                      *)
(***************************************************************************)
SampleValorServico ==
    {<<"1", "0", ",", "0", "0">>, <<"1", "2", ",", "5">>, <<"0">>,
     <<"-", "3", ",", "0", "0">>, <<"1", ".", "2", "3", "4", ",", "5", "6">>,
     <<"a", "b", "c">>, <<>>}

SamplePrazo == {<<"5">>, <<"0">>, <<"-", "1">>, <<"x">>, <<>>}

Behaviours ==
    [wsdl : {"error", "empty", "ok"},
     soap : {"fault", "ok"},
     hasCodigoProc : BOOLEAN,
     CodigoProc : {0, 1, 2},
     DadosFrete : {"missing", "None", "present"},
     ValorServico : SampleValorServico,
     Prazo : SamplePrazo]

InitApi ==
    /\ pc = "api"
    /\ response \in Behaviours
    /\ environ = [TOTAL_EXPRESS_USERNAME |-> "user", TOTAL_EXPRESS_PASSWORD |-> "secret"]
    /\ tariff = [ValorServico |-> <<>>, Prazo |-> <<>>]
    /\ run = 0
    /\ ci = 0
    /\ wi = 0
    /\ query_count = 0
    /\ results = <<>>
    /\ calls = <<>>
    /\ requests = 0
    /\ sleeps = 0
    /\ files = [f \in FileNames |-> NoFile]
    /\ opens = [f \in FileNames |-> 0]
    /\ exc = "none"
    /\ exit_code = -1
    /\ faults = 0
    /\ api_result = PyNone

\* Lines 94-146: one call of the client.
ApiCall ==
    /\ pc = "api"
    /\ api_result' = calculate_shipping_cost(response)
    /\ requests' = requests + 1
    /\ pc' = "api_done"
    /\ UNCHANGED <<environ, tariff, run, ci, wi, query_count, results, calls, sleeps,
                   files, opens, exc, exit_code, faults, response>>

NextApi == ApiCall

SpecApi == InitApi /\ [][NextApi]_vars

(***************************************************************************)
(* What the texts of the samples denote, and what the formats of the       *)
(* specification produce: the reference the properties compare with.       *)
(***************************************************************************)
\* The amount a payload text is meant to denote, in centavos; -1 * 10^9 for
\* a text that denotes none.
NoAmount == 0 - 1000000000

DenotedCents(text) ==
    CASE text = <<"1", "0", ",", "0", "0">> -> 1000
      [] text = <<"1", "2", ",", "5">> -> 1250
      [] text = <<"0">> -> 0
      [] text = <<"-", "3", ",", "0", "0">> -> 0 - 300
      [] OTHER -> NoAmount

DenotedDays(text) ==
    CASE text = <<"5">> -> 5
      [] text = <<"0">> -> 0
      [] text = <<"-", "1">> -> 0 - 1
      [] OTHER -> NoAmount

\* "%.2f" of an amount given in hundredths.
TwoDecimals(c) ==
    LET a == IF c < 0 THEN 0 - c ELSE c
    IN  (IF c < 0 THEN <<"-">> ELSE <<>>)
        \o NatStr(a \div 100) \o <<".">>
        \o <<Digits[((a \div 10) % 10) + 1], Digits[(a % 10) + 1]>>

\* "%08d" of a natural number.
RECURSIVE ZeroPad(_, _)
ZeroPad(s, width) == IF Len(s) >= width THEN s ELSE ZeroPad(<<"0">> \o s, width)

ZeroPad8(n) == ZeroPad(NatStr(n), 8)

\* "%.2f" of grams / 1000.0; the halves among the table's midpoints are
\* multiples of 125 g, exact in binary, and round to even.
KgTwoDecimals(g) ==
    LET q == g \div 10
        r == g % 10
        up == r > 5 \/ (r = 5 /\ q % 2 = 1)
    IN  TwoDecimals(IF up THEN q + 1 ELSE q)

PairIndex(c, w) == (c - 1) * Len(weight_ranges) + w

AllOk == \A k \in 1..Len(calls) : calls[k].ok

LoopDone == pc \in {"write", "gen_done"}

RowOfPair(row, c, w) ==
    /\ row.cep_start = cep_ranges[c][1]
    /\ row.cep_end = cep_ranges[c][2]
    /\ row.weight_start = weight_ranges[w][1]
    /\ row.weight_end = weight_ranges[w][2]

\* C1: when every query of a run succeeded, the rows handed to write_csv are
\* one per pair of a postal range and a weight range, |postal| x |weight| in
\* all, and the row at position (i - 1) * |weight| + j (counting from 1)
\* carries the bounds of the i-th postal range and the j-th weight range.
C1_AllSuccessFullTableInOrder ==
    (LoopDone /\ AllOk) =>
        /\ Len(results) = Len(cep_ranges) * Len(weight_ranges)
        /\ \A c \in 1..Len(cep_ranges) : \A w \in 1..Len(weight_ranges) :
               RowOfPair(results[PairIndex(c, w)], c, w)
        /\ pc = "gen_done" =>
               files[output_files[run]].rows = [k \in 1..Len(results) |-> CsvRow(results[k])]

C1_Witness ==
    /\ pc = "gen_done"
    /\ AllOk
    /\ Len(calls) = total_queries
    /\ Len(cep_ranges) > 1
    /\ Len(weight_ranges) > 1
    /\ results[Len(results)].cep_start = cep_ranges[Len(cep_ranges)][1]

Succeeded(c, w) ==
    \E k \in 1..Len(calls) : calls[k].cep = c /\ calls[k].weight = w /\ calls[k].ok

HasRow(rows, c, w) == \E k \in 1..Len(rows) : RowOfPair(rows[k], c, w)

C2_RowIffSucceeded ==
    /\ \A c \in 1..Len(cep_ranges) : \A w \in 1..Len(weight_ranges) :
           HasRow(results, c, w) <=> Succeeded(c, w)
    /\ Len(results) = Cardinality({k \in 1..Len(calls) : calls[k].ok})

C2_FailureStep ==
    pc = "query" =>
        /\ pc' = "sleep"
        /\ Len(calls') = Len(calls) + 1
        /\ ~calls'[Len(calls')].ok => results' = results
        /\ calls'[Len(calls')].ok => SubSeq(results', 1, Len(results)) = results

\* C2: for any pattern of successes and failures, a query that returns None
\* appends no row and leaves the accumulated rows as they were, the loop goes
\* on to the pause and the next pair, and at every moment the table holds a
\* row for a pair if and only if that pair's query succeeded.
C2_FailedQueryContributesNoRow == []C2_RowIffSucceeded /\ [][C2_FailureStep]_vars

C2_Witness ==
    /\ pc = "gen_done"
    /\ \E k1, k2 \in 1..Len(calls) : k1 < k2 /\ ~calls[k1].ok /\ calls[k2].ok
    /\ Len(results) < total_queries
    /\ Len(results) > 0

CredentialMissing(value, placeholder) == value \in {Unset, "", placeholder}

\* C3: when either credential is absent, empty or a placeholder, main ends
\* with a non-zero exit status and no remote call is ever made.
C3_BadCredentialsAbortWithoutCalls ==
    (\/ CredentialMissing(environ.TOTAL_EXPRESS_USERNAME, "your_username")
     \/ CredentialMissing(environ.TOTAL_EXPRESS_PASSWORD, "your_password"))
    => /\ requests = 0
       /\ pc = "exit" => exit_code # 0

\* C4: every row written has its cost as a decimal with exactly two fraction
\* digits in AbsoluteMoneyCost and its delivery_days in TimeCost.
C4_CostWrittenWithTwoDecimals ==
    pc = "gen_done" =>
        LET written == files[output_files[run]].rows
        IN  /\ Len(written) = Len(results)
            /\ \A k \in 1..Len(results) :
                   /\ written[k].AbsoluteMoneyCost = TwoDecimals(results[k].cost)
                   /\ written[k].TimeCost = results[k].delivery_days

\* C5: every pricing request carries the zero-padded 8-digit text of the
\* postal range's midpoint as destination and the weight range's midpoint in
\* kilograms with two decimals as weight.
C5_RequestCarriesFormattedMidpoints ==
    \A k \in 1..Len(calls) :
        LET cr == cep_ranges[calls[k].cep]
            wr == weight_ranges[calls[k].weight]
        IN  /\ calls[k].params.CepDestino = ZeroPad8(cr[1] + (cr[2] - cr[1]) \div 2)
            /\ calls[k].params.Peso = KgTwoDecimals(wr[1] + (wr[2] - wr[1]) \div 2)

QuoteExpected(r) ==
    /\ r.wsdl = "ok"
    /\ r.soap = "ok"
    /\ r.hasCodigoProc
    /\ r.CodigoProc = 1
    /\ r.DadosFrete = "present"
    /\ DenotedCents(r.ValorServico) # NoAmount
    /\ DenotedDays(r.Prazo) # NoAmount

\* C6: calculate_shipping_cost returns a quote exactly when the interface
\* definition was fetched (a non-empty definition), the request returned
\* CodigoProc = 1 and DadosFrete is present with a cost and a day count that
\* parse; the quote is the parsed cost and day count; otherwise it returns
\* None, and it never lets an exception out.
C6_QuoteIffSuccessResponse ==
    pc = "api_done" =>
        /\ api_result.kind \in {"dict", "None"}
        /\ api_result.kind = "dict" <=> QuoteExpected(response)
        /\ api_result.kind = "dict" =>
               /\ api_result.cost = DenotedCents(response.ValorServico)
               /\ api_result.delivery_days = DenotedDays(response.Prazo)

C6_Witness ==
    /\ pc = "api_done"
    /\ api_result.kind = "dict"
    /\ api_result.cost = 1250
    /\ api_result.delivery_days = 5

\* C7, as stated: generate_table never raises to its caller.
C7_NeverRaises == exc = "none"

\* C7, amended: no outcome of a remote call makes generate_table raise; the
\* only exceptions that leave it are the OSError of creating the output
\* folder and of opening or writing the output file, which end the process
\* with status 1.
C7_RaisesOnlyOnOutputError ==
    /\ exc \in {"none", "makedirs:OSError", "open:OSError", "write:OSError"}
    /\ exc # "none" => (pc = "exit" /\ exit_code = 1)
    /\ (pc = "exit" /\ exit_code = 0) =>
           (exc = "none" /\ \A f \in FileNames : files[f].exists)

C7_Witness ==
    /\ pc = "exit"
    /\ exc = "write:OSError"
    /\ faults > 0
    /\ run = 2

RowFromTables(row) ==
    /\ \E c \in 1..Len(cep_ranges) :
           row.cep_start = cep_ranges[c][1] /\ row.cep_end = cep_ranges[c][2]
    /\ \E w \in 1..Len(weight_ranges) :
           row.weight_start = weight_ranges[w][1] /\ row.weight_end = weight_ranges[w][2]

\* C8, as stated: every accumulated row has cost >= 0 and delivery_days >= 0
\* and the bounds of one postal range and one weight range.
C8_RowsNonNegative ==
    \A k \in 1..Len(results) :
        /\ results[k].cost >= 0
        /\ results[k].delivery_days >= 0
        /\ RowFromTables(results[k])

\* C8, amended: every accumulated row and every written row has the bounds
\* of one postal range and one weight range of the static tables; its cost
\* and delivery_days are the service's ValorServico and Prazo as parsed,
\* unvalidated, so they are non-negative when the service's values are.
C8_RowsFromTablesAndResponse ==
    /\ \A k \in 1..Len(results) :
           /\ RowFromTables(results[k])
           /\ results[k].cost = DenotedCents(tariff.ValorServico)
           /\ results[k].delivery_days = DenotedDays(tariff.Prazo)
    /\ \A f \in FileNames : \A k \in 1..Len(files[f].rows) :
           /\ \E c \in 1..Len(cep_ranges) :
                  /\ files[f].rows[k].ZipCodeStart = cep_ranges[c][1]
                  /\ files[f].rows[k].ZipCodeEnd = cep_ranges[c][2]
           /\ \E w \in 1..Len(weight_ranges) :
                  /\ files[f].rows[k].WeightStart = weight_ranges[w][1]
                  /\ files[f].rows[k].WeightEnd = weight_ranges[w][2]
           /\ files[f].rows[k].TimeCost = DenotedDays(tariff.Prazo)

C8_Witness ==
    /\ pc = "gen_done"
    /\ Len(results) > 1
    /\ results[1].cost < 0
    /\ results[1].delivery_days < 0
    /\ Len(files[output_files[run]].rows) > 1

\* C9: calculate_shipping_cost is invoked once per pair, in iteration order,
\* |postal| x |weight| times in a run whichever queries fail, and every
\* invocation is followed by one pause before the next one starts.
C9_OneCallPerPairThenPause ==
    /\ \A k \in 1..Len(calls) :
           /\ calls[k].cep = ((k - 1) \div Len(weight_ranges)) + 1
           /\ calls[k].weight = ((k - 1) % Len(weight_ranges)) + 1
    /\ Len(calls) <= Len(cep_ranges) * Len(weight_ranges)
    /\ LoopDone => Len(calls) = Len(cep_ranges) * Len(weight_ranges)
    /\ pc \in {"query", "write", "gen_done"} => sleeps = Len(calls)
    /\ pc = "sleep" => sleeps + 1 = Len(calls)
    /\ query_count = Len(calls)
    /\ pc = "query" => (ci = (Len(calls) \div Len(weight_ranges)) + 1
                        /\ wi = (Len(calls) % Len(weight_ranges)) + 1)

C9_Witness ==
    /\ pc = "write"
    /\ Len(calls) = total_queries
    /\ sleeps = total_queries
    /\ ~calls[1].ok
    /\ \E k \in 2..Len(calls) : ~calls[k].ok
    /\ Len(calls) >= 4

InGenerateTable == pc \in {"gen_start", "query", "sleep", "write"}

\* C10: the output file of a run is opened for writing once, after the query
\* of the last pair has completed: while the run is before its write_csv
\* call the file has neither header nor rows, and no file is written twice.
C10_FileWrittenOnceAfterLoop ==
    /\ InGenerateTable =>
           /\ files[output_files[run]] = NoFile
           /\ opens[output_files[run]] = 0
    /\ \A f \in FileNames : opens[f] <= 1
    /\ \A f \in FileNames : files[f].exists => opens[f] = 1
    /\ pc = "gen_done" =>
           /\ opens[output_files[run]] = 1
           /\ files[output_files[run]].header = fieldnames
           /\ Len(calls) = total_queries
           /\ sleeps = total_queries

C10_Witness ==
    /\ pc = "sleep"
    /\ run = 2
    /\ Len(results) = total_queries
    /\ files[output_files[2]] = NoFile
    /\ Len(files[output_files[1]].rows) > 0

====
